---- MODULE Spec2Model ----
(***************************************************************************)
(* A model of the IFCore orchestrator (src/orchestrator.py): the class     *)
(* CheckerOrchestrator with its registry (checkers, loaded_modules), its   *)
(* trace log (execution_log) and its two operations discover() and run().  *)
(*                                                                         *)
(* Strings that the code inspects (file names, function names, the filter) *)
(* are sequences of one-character strings, so that glob matching, sorting, *)
(* startswith, lower() and the substring test are computed, not assumed.   *)
(* Dictionaries that keep insertion order and are iterated (checkers and   *)
(* the per-file function dictionaries) are sequences of key/value records. *)
(* The dictionaries that rules return are objects on a heap, because run() *)
(* writes its provenance keys into the rule's own objects.                 *)
(***************************************************************************)
EXTENDS Integers, Sequences, FiniteSets, TLC

\* The number of discover() and run() calls made on one engine.
MaxCalls == 3

\* The longest list of records given to the helpers that read results.
MaxResults == 3

\* The largest number of entities of one type in a model.
MaxEntities == 2

-----------------------------------------------------------------------------
(* Strings *)

CheckerPrefix == <<"c", "h", "e", "c", "k", "e", "r", "_">>
PyExt == <<".", "p", "y">>
CheckPrefix == <<"c", "h", "e", "c", "k", "_">>
TemplateName ==
    CheckerPrefix \o <<"t", "e", "m", "p", "l", "a", "t", "e">> \o PyExt

F_a == CheckerPrefix \o <<"a">> \o PyExt
F_B == CheckerPrefix \o <<"B">> \o PyExt
F_util == <<"u", "t", "i", "l">> \o PyExt

N_x == CheckPrefix \o <<"x">>
N_y == CheckPrefix \o <<"y">>
N_v == CheckPrefix \o <<"v">>
N_help == <<"h", "e", "l", "p">>

\* The characters in use, in the order of their code points.
CodePoints ==
    <<".", "B", "_", "a", "b", "c", "e", "h", "i", "k", "l", "m", "p", "r",
      "t", "u", "v", "x", "y", "z">>

Ord(c) == CHOOSE i \in 1..Len(CodePoints) : CodePoints[i] = c

\* A lower() that changes no character.
LowerChar_Same(c) == c

\* str.lower() on one character and on a string.
LowerChar(c) ==
    CASE c = "B" -> "b"
      [] c = "H" -> "h"
      [] c = "L" -> "l"
      [] c = "R" -> "r"
      [] c = "T" -> "t"
      [] OTHER -> c
Lower(s) == [i \in 1..Len(s) |-> LowerChar(s[i])]

StartsWith(s, p) == Len(s) >= Len(p) /\ SubSeq(s, 1, Len(p)) = p
EndsWith(s, p) == Len(s) >= Len(p) /\ SubSeq(s, Len(s) - Len(p) + 1, Len(s)) = p

\* Python's  sub in s.
Contains(s, sub) ==
    \E i \in 0..(Len(s) - Len(sub)) : SubSeq(s, i + 1, i + Len(sub)) = sub

\* Python's string comparison  s < t.
RECURSIVE StrLess(_, _)
StrLess(s, t) ==
    IF s = <<>> THEN t # <<>>
    ELSE IF t = <<>> THEN FALSE
    ELSE IF Head(s) = Head(t) THEN StrLess(Tail(s), Tail(t))
    ELSE Ord(Head(s)) < Ord(Head(t))

\* sorted() of a set of distinct strings.
RECURSIVE Sorted(_)
Sorted(S) ==
    IF S = {} THEN <<>>
    ELSE LET m == CHOOSE x \in S : \A y \in S \ {x} : StrLess(x, y)
         IN <<m>> \o Sorted(S \ {m})

\* A glob that matches every file name.
GlobMatch_Any(name) == TRUE

\* Path.glob("checker_*.py") on one file name.
GlobMatch(name) ==
    /\ Len(name) >= Len(CheckerPrefix) + Len(PyExt)
    /\ StartsWith(name, CheckerPrefix)
    /\ EndsWith(name, PyExt)

-----------------------------------------------------------------------------
(* Result dictionaries *)

RequiredKeys ==
    {"element_id", "element_type", "element_name", "element_name_long",
     "check_status", "actual_value", "required_value", "comment", "log"}

ProvenanceKeys == {"_checker_file", "_checker_function"}

\* A dictionary with the nine required keys, as a rule builds it.
BaseDict(etype, status) ==
    [k \in RequiredKeys |->
        CASE k = "element_type" -> etype
          [] k = "check_status" -> status
          [] OTHER -> "None"]

\* d[key] = value  on a dictionary (the key is added when it is absent).
DictSet(d, key, value) ==
    [k \in DOMAIN d \cup {key} |-> IF k = key THEN value ELSE d[k]]

\* del d[key]
DictDel(d, key) == [k \in DOMAIN d \ {key} |-> d[k]]

-----------------------------------------------------------------------------
(* Rule modules on disk *)

\* A name a module binds: a callable with what its body does when it is
\* invoked (see Invoke), or a value that is not callable.
Fn(name, beh) == [name |-> name, callable |-> TRUE, beh |-> beh]
Const(name) == [name |-> name, callable |-> FALSE, beh |-> "none"]

\* The text of a module file: whether executing it succeeds, the names it
\* binds, and whether it binds a module-level result dictionary.
SrcBroken == [loads |-> FALSE, members |-> {}, cache |-> FALSE]
SrcHelpers ==
    [loads |-> TRUE, members |-> {Fn(N_help, "one"), Const(N_v)},
     cache |-> FALSE]
SrcRaise ==
    [loads |-> TRUE,
     members |-> {Fn(N_x, "raise"), Fn(N_y, "two"), Fn(N_help, "one")},
     cache |-> FALSE]
SrcPartial ==
    [loads |-> TRUE, members |-> {Fn(N_x, "partial"), Fn(N_y, "extra")},
     cache |-> FALSE]
SrcLoose ==
    [loads |-> TRUE,
     members |-> {Fn(N_v, "none"), Fn(N_x, "nondict"), Fn(N_y, "empty")},
     cache |-> FALSE]
SrcAllFail ==
    [loads |-> TRUE, members |-> {Fn(N_x, "raise"), Fn(N_y, "none")},
     cache |-> FALSE]
SrcCached ==
    [loads |-> TRUE, members |-> {Fn(N_x, "cached"), Fn(N_y, "cached")},
     cache |-> TRUE]
SrcOwn ==
    [loads |-> TRUE, members |-> {Fn(N_x, "owntag"), Fn(N_y, "strict")},
     cache |-> FALSE]
SrcShared ==
    [loads |-> TRUE,
     members |-> {Fn(N_x, "cached"), Fn(N_y, "cached_strict")},
     cache |-> TRUE]

\* A directory: the files in it, each with its text.
Dir(names, text) == [exists |-> TRUE, names |-> names, text |-> text]
NoDir == [exists |-> FALSE, names |-> {}, text |-> [n \in {} |-> SrcBroken]]

Files1(n1, s1) == Dir({n1}, [n \in {n1} |-> s1])
Files2(n1, s1, n2, s2) ==
    Dir({n1, n2}, [n \in {n1, n2} |-> IF n = n1 THEN s1 ELSE s2])

\* The directories that tools_dir may be found to be when discover() runs.
Dirs ==
    {NoDir,
     Dir({}, [n \in {} |-> SrcBroken]),
     Files2(TemplateName, SrcRaise, F_util, SrcRaise),
     Files1(F_a, SrcHelpers),
     Files2(F_a, SrcRaise, TemplateName, SrcPartial),
     Files2(F_a, SrcPartial, F_B, SrcLoose),
     Files2(F_a, SrcBroken, F_B, SrcRaise),
     Files2(F_a, SrcOwn, F_B, SrcBroken),
     Files2(F_a, SrcAllFail, F_B, SrcHelpers),
     Files1(F_B, SrcCached),
     Files1(F_a, SrcCached),
     Files1(F_a, SrcOwn),
     Files1(F_a, SrcShared)}

-----------------------------------------------------------------------------
(* Python dictionaries that are iterated: insertion-ordered key/value lists *)

Keys(d) == [i \in 1..Len(d) |-> d[i].key]
HasKey(d, k) == \E i \in 1..Len(d) : d[i].key = k

\* d[k] = v : an existing key keeps its position, a new key goes last.
Put(d, k, v) ==
    IF HasKey(d, k)
    THEN [i \in 1..Len(d) |-> IF d[i].key = k THEN [key |-> k, val |-> v] ELSE d[i]]
    ELSE Append(d, [key |-> k, val |-> v])

\* One line of execution_log.
Line(kind, file, func, n) == [kind |-> kind, file |-> file, func |-> func, n |-> n]

-----------------------------------------------------------------------------
(* discover() *)

\* _load_module: executing the file binds its names in a new module object;
\* a module-level dictionary is a new object on the heap. (The entry that
\* _load_module adds to sys.modules is read by nothing in the engine and is
\* left out.)
LoadModule(src, heap) ==
    IF ~src.loads
    THEN [raised |-> TRUE, module |-> {}, heap |-> heap]
    ELSE LET cache == IF src.cache THEN Len(heap) + 1 ELSE 0
             heap1 == IF src.cache
                      THEN Append(heap, BaseDict("Summary", "log"))
                      ELSE heap
         IN [raised |-> FALSE,
             module |-> {[name |-> m.name, callable |-> m.callable,
                          obj |-> [beh |-> m.beh, cache |-> cache]]
                         : m \in src.members},
             heap |-> heap1]

\* The list check_functions: inspect.getmembers() is sorted by name.
CheckFunctions(module) ==
    LET names == {m.name : m \in {x \in module :
                                      StartsWith(x.name, CheckPrefix) /\ x.callable}}
        order == Sorted(names)
    IN [i \in 1..Len(order) |->
            [key |-> order[i],
             val |-> (CHOOSE m \in module : m.name = order[i]).obj]]

\* checker_files: the sorted glob, without the template.
CheckerFiles(dir) ==
    Sorted({f \in dir.names : GlobMatch(f) /\ f # TemplateName})

\* A loop body without the test for an empty check_functions: the module
\* is registered whatever it binds.
DiscoverFile_AlwaysRegistered(st, dir, file) ==
    IF LoadModule(dir.text[file], st.heap).raised
    THEN [st EXCEPT !.raised = TRUE,
                    !.log = Append(@, Line("load_error", file, <<>>, 0))]
    ELSE [st EXCEPT
            !.heap = LoadModule(dir.text[file], st.heap).heap,
            !.loaded = Put(@, file, LoadModule(dir.text[file], st.heap).module),
            !.checkers =
                Put(@, file,
                    CheckFunctions(LoadModule(dir.text[file], st.heap).module)),
            !.log = Append(@, Line("found_functions", file, <<>>,
                     Len(CheckFunctions(
                             LoadModule(dir.text[file], st.heap).module))))]

\* The body of the loop over checker_files for one file. st holds the
\* engine's fields; raised tells that OrchestratorError left the loop.
DiscoverFile(st, dir, file) ==
    LET ld == LoadModule(dir.text[file], st.heap)
        funcs == CheckFunctions(ld.module)
    IN IF ld.raised
       THEN [st EXCEPT !.raised = TRUE,
                       !.log = Append(@, Line("load_error", file, <<>>, 0))]
       ELSE IF Len(funcs) = 0
       THEN [st EXCEPT !.heap = ld.heap,
                       !.loaded = Put(@, file, ld.module),
                       !.log = Append(@, Line("no_functions", file, <<>>, 0))]
       ELSE [st EXCEPT !.heap = ld.heap,
                       !.loaded = Put(@, file, ld.module),
                       !.checkers = Put(@, file, funcs),
                       !.log = Append(@, Line("found_functions", file, <<>>,
                                              Len(funcs)))]

RECURSIVE DiscoverLoop(_, _, _, _)
DiscoverLoop(st, dir, files, i) ==
    IF i > Len(files) \/ st.raised THEN st
    ELSE DiscoverLoop(DiscoverFile(st, dir, files[i]), dir, files, i + 1)

\* The mapping discover() returns.
DiscoverReturn(chk) ==
    [i \in 1..Len(chk) |-> [key |-> chk[i].key, val |-> Keys(chk[i].val)]]

\* DirMissing that takes every directory to exist.
DirMissing_Never(dir) == FALSE

\* not self.tools_dir.exists()
DirMissing(dir) == ~dir.exists

\* discover() as a whole, from the engine's fields st.
DiscoverCall(st, dir) ==
    IF DirMissing(dir) THEN [st EXCEPT !.raised = TRUE]
    ELSE LET files == CheckerFiles(dir)
             st1 == [st EXCEPT !.log = @ \o <<Line("scanning", <<>>, <<>>, 0),
                                              Line("found_files", <<>>, <<>>,
                                                   Len(files))>>]
         IN DiscoverLoop(st1, dir, files, 1)

-----------------------------------------------------------------------------
(* Rule invocation *)

\* The values a caller may pass as model; only "ifc" is an ifcopenshell.file.
Models == {"ifc", "str", "None"}
\* IsIfcFile that accepts any value.
IsIfcFile_Any(model) == TRUE

\* isinstance(model, ifcopenshell.file)
IsIfcFile(model) == model = "ifc"

\* checker_filter: None, or a string.
NoFilter == [given |-> FALSE, s |-> <<>>]
Filter(s) == [given |-> TRUE, s |-> s]
Filters ==
    {NoFilter, Filter(<<>>), Filter(<<"B">>), Filter(<<"b">>),
     Filter(<<"z", "z">>)}

\* **kwargs: a set of <<name, value>> pairs.
Kwargs == {{}, {<<"min_width", 9>>}}

Ref(id) == [isdict |-> TRUE, ref |-> id]
NotADict == [isdict |-> FALSE, ref |-> 0]

Returned(items, heap) ==
    [raised |-> FALSE, islist |-> TRUE, items |-> items, heap |-> heap]
Raised(heap) ==
    [raised |-> TRUE, islist |-> FALSE, items |-> <<>>, heap |-> heap]

\* func_obj(model, **kwargs): what the rule returns or that it raises; the
\* dictionaries a rule builds are new objects on the heap. What a rule
\* raises is an Exception, the class that the except clause of run() names.
Invoke(fn, model, kwargs, heap) ==
    LET new == Len(heap) + 1
        ok == BaseDict("IfcDoor", "pass")
        one == Returned(<<Ref(new)>>, Append(heap, ok))
    IN CASE fn.beh = "raise" -> Raised(heap)
         [] fn.beh = "none" ->
                [raised |-> FALSE, islist |-> FALSE, items |-> <<>>, heap |-> heap]
         [] fn.beh = "empty" -> Returned(<<>>, heap)
         [] fn.beh = "one" -> one
         [] fn.beh = "two" ->
                Returned(<<Ref(new), Ref(new + 1)>>,
                         heap \o <<ok, BaseDict("IfcDoor", "fail")>>)
         [] fn.beh = "extra" ->
                Returned(<<Ref(new)>>, Append(heap, DictSet(ok, "note", "None")))
         [] fn.beh = "partial" ->
                Returned(<<Ref(new), Ref(new + 1)>>,
                         heap \o <<ok, DictDel(BaseDict("Summary", "fail"), "log")>>)
         [] fn.beh = "nondict" ->
                Returned(<<Ref(new), NotADict>>, Append(heap, ok))
         [] fn.beh = "cached" -> Returned(<<Ref(fn.cache)>>, heap)
         [] fn.beh = "owntag" ->
                Returned(<<Ref(new)>>,
                         Append(heap, DictSet(ok, "_checker_file", F_util)))
         [] fn.beh = "strict" -> IF kwargs # {} THEN Raised(heap) ELSE one
         [] fn.beh = "cached_strict" ->
                IF kwargs # {} THEN Raised(heap)
                ELSE Returned(<<Ref(fn.cache)>>, heap)

-----------------------------------------------------------------------------
(* run() *)

\* MissingKeys that finds every key present.
MissingKeys_None(result) == {}

\* required_keys - set(result.keys())
MissingKeys(result) == RequiredKeys \ DOMAIN result

\* The loop over a rule's returned list: each element is validated and, when
\* valid, tagged and appended before the next element is looked at.
RECURSIVE ValidateLoop(_, _, _, _, _)
ValidateLoop(rs, items, i, filename, func_name) ==
    IF i > Len(items) THEN rs
    ELSE IF ~items[i].isdict
    THEN [rs EXCEPT !.raised = TRUE,
                    !.err = [kind |-> "not_a_dict", n |-> i - 1, keys |-> {}]]
    ELSE LET id == items[i].ref
             missing_keys == MissingKeys(rs.heap[id])
         IN IF missing_keys # {}
            THEN [rs EXCEPT !.raised = TRUE,
                            !.err = [kind |-> "missing_keys", n |-> i - 1,
                                     keys |-> missing_keys]]
            ELSE ValidateLoop(
                   [rs EXCEPT
                      !.heap[id] = DictSet(DictSet(@, "_checker_file", filename),
                                           "_checker_function", func_name),
                      !.all_results = Append(@, id)],
                   items, i + 1, filename, func_name)

\* The rule is announced in the trace and called; out is what the call did.
Called(rs, filename, func_name, model, kwargs, out) ==
    [rs EXCEPT !.log = Append(@, Line("running", filename, func_name, 0)),
               !.heap = out.heap,
               !.invoked = Append(@, [file |-> filename, func |-> func_name,
                                      model |-> model, kwargs |-> kwargs,
                                      raised |-> out.raised,
                                      islist |-> out.islist,
                                      items |-> out.items])]

\* An exception leaves the try block.
Throw(rs, kind) ==
    [rs EXCEPT !.raised = TRUE, !.err = [kind |-> kind, n |-> 0, keys |-> {}]]

\* An end of the try block that counts the rule and records no detail.
Succeed_NoDetail(rs, filename, func_name, count) ==
    [rs EXCEPT !.successful = @ + 1]

\* The end of the try block: the rule is counted as successful.
Succeed(rs, filename, func_name, count) ==
    [rs EXCEPT !.successful = @ + 1,
               !.checker_details = Append(@,
                   [checker |-> <<filename, func_name>>,
                    status |-> "success",
                    result_count |-> count])]

\* After the validation loop v of a list of count elements.
Validated(v, filename, func_name, count) ==
    IF v.raised THEN v
    ELSE Succeed([v EXCEPT !.log = Append(@, Line("results", <<>>, <<>>, count))],
                 filename, func_name, count)

\* Checks on the returned value that take an empty list for an error.
Checked_EmptyRaises(rs, out, filename, func_name) ==
    IF out.raised THEN Throw(rs, "rule_raised")
    ELSE IF ~out.islist THEN Throw(rs, "not_a_list")
    ELSE IF Len(out.items) = 0 THEN Throw(rs, "no_results")
    ELSE Validated(ValidateLoop(rs, out.items, 1, filename, func_name),
                   filename, func_name, Len(out.items))

\* The try block after the call: the checks on the returned value.
Checked(rs, out, filename, func_name) ==
    IF out.raised THEN Throw(rs, "rule_raised")
    ELSE IF ~out.islist THEN Throw(rs, "not_a_list")
    ELSE IF Len(out.items) = 0
    THEN Succeed([rs EXCEPT !.log = Append(@, Line("no_results", <<>>, <<>>, 0))],
                 filename, func_name, 0)
    ELSE Validated(ValidateLoop(rs, out.items, 1, filename, func_name),
                   filename, func_name, Len(out.items))

\* The try block of one rule, up to the point where it raises or ends.
TryRule(rs, filename, func_name, model, kwargs, out) ==
    Checked(Called(rs, filename, func_name, model, kwargs, out), out,
            filename, func_name)

\* An except clause that does not count the failure.
Except_NoCount(t, filename, func_name) ==
    IF t.raised
    THEN [t EXCEPT
            !.raised = FALSE,
            !.log = Append(@, [kind |-> "error", err |-> t.err]),
            !.checker_details = Append(@,
                [checker |-> <<filename, func_name>>,
                 status |-> "failed",
                 error |-> t.err])]
    ELSE t

\* No except clause: the exception leaves run().
Except_NoCatch(t, filename, func_name) == t

\* The except clause, applied to the state t in which the try block ended.
Except(t, filename, func_name) ==
    IF t.raised
    THEN [t EXCEPT
            !.raised = FALSE,
            !.failed = @ + 1,
            !.log = Append(@, [kind |-> "error", err |-> t.err]),
            !.checker_details = Append(@,
                [checker |-> <<filename, func_name>>,
                 status |-> "failed",
                 error |-> t.err])]
    ELSE t

\* A call that passes no keyword argument on.
Unpack_Nothing(kwargs) == {}

\* **kwargs in a call: the callee is given the items of the mapping.
Unpack(kwargs) == kwargs

\* The body of the inner loop for one rule: the filter, the count, the try
\* block and its except clause.
RunRule(rs, filename, func_name, func_obj, model, checker_filter, kwargs) ==
    IF /\ checker_filter.given
       /\ checker_filter.s # <<>>
       /\ ~Contains(Lower(filename), Lower(checker_filter.s))
    THEN rs
    ELSE Except(TryRule([rs EXCEPT !.total_checkers = @ + 1], filename,
                        func_name, model, Unpack(kwargs),
                        Invoke(func_obj, model, Unpack(kwargs), rs.heap)),
                filename, func_name)

RECURSIVE RunFunctions(_, _, _, _, _, _, _)
RunFunctions(rs, filename, functions_dict, j, model, checker_filter, kwargs) ==
    IF j > Len(functions_dict) \/ rs.raised THEN rs
    ELSE RunFunctions(
           RunRule(rs, filename, functions_dict[j].key, functions_dict[j].val,
                   model, checker_filter, kwargs),
           filename, functions_dict, j + 1, model, checker_filter, kwargs)

RECURSIVE RunFiles(_, _, _, _, _, _)
RunFiles(rs, chk, i, model, checker_filter, kwargs) ==
    IF i > Len(chk) \/ rs.raised THEN rs
    ELSE RunFiles(
           RunFunctions(rs, chk[i].key, chk[i].val, 1, model, checker_filter,
                        kwargs),
           chk, i + 1, model, checker_filter, kwargs)

NoError == [kind |-> "none", n |-> 0, keys |-> {}]

\* Locals in which all_results is not empty at the start: it holds the
\* dictionaries that rules built in the calls before.
RunState_Kept(log, heap) ==
    [all_results |-> [i \in 1..Len(heap) |-> i],
     total_checkers |-> 0, successful |-> 0,
     failed |-> 0, checker_details |-> <<>>, log |-> log, heap |-> heap,
     invoked |-> <<>>, raised |-> FALSE, err |-> NoError, report |-> <<>>]

\* The locals of run() and the fields it writes, before the guards.
RunState(log, heap) ==
    [all_results |-> <<>>, total_checkers |-> 0, successful |-> 0,
     failed |-> 0, checker_details |-> <<>>, log |-> log, heap |-> heap,
     invoked |-> <<>>, raised |-> FALSE, err |-> NoError, report |-> <<>>]

\* raise OrchestratorError(...)
Abort(rs, kind) == [rs EXCEPT !.raised = TRUE, !.err.kind = kind]

\* Opening trace lines written to a log that is emptied first.
Started_Reset(rs) ==
    [rs EXCEPT !.log = <<Line("rule", <<>>, <<>>, 0),
                         Line("start", <<>>, <<>>, 0),
                         Line("rule", <<>>, <<>>, 0)>>]

\* The opening trace lines.
Started(rs) ==
    [rs EXCEPT !.log = @ \o <<Line("rule", <<>>, <<>>, 0),
                              Line("start", <<>>, <<>>, 0),
                              Line("rule", <<>>, <<>>, 0)>>]

\* The closing trace lines.
Closed(rs) ==
    [rs EXCEPT !.log = @ \o <<Line("rule", <<>>, <<>>, 0),
                              Line("complete", <<>>, <<>>, 0),
                              [kind |-> "checkers_run",
                               successful |-> rs.successful,
                               total |-> rs.total_checkers],
                              Line("results_collected", <<>>, <<>>,
                                   Len(rs.all_results)),
                              Line("rule", <<>>, <<>>, 0)>>]

\* "\n".join(lines): the lines with a line break between one and the next.
Join(lines) ==
    [i \in 1..(2 * Len(lines) - 1) |->
        IF i % 2 = 1 THEN lines[(i + 1) \div 2] ELSE [kind |-> "newline"]]

\* The returned dictionary.
Report(rs) ==
    [rs EXCEPT !.report =
        <<[results |-> rs.all_results,
           summary |-> [total_checkers |-> rs.total_checkers,
                        successful_checkers |-> rs.successful,
                        failed_checkers |-> rs.failed,
                        total_results |-> Len(rs.all_results),
                        checker_details |-> rs.checker_details],
           log |-> Join(rs.log)]>>]

\* After the loops: an exception that left them leaves run().
Finished(rs) == IF rs.raised THEN rs ELSE Report(Closed(rs))

\* NotDiscovered that lets an empty registry pass.
NotDiscovered_Never(chk) == FALSE

\* not self.checkers
NotDiscovered(chk) == Len(chk) = 0

\* run() as a whole, from the engine's fields: the two guards, the loops,
\* the closing trace lines and the returned dictionary.
RunCall(chk, log, heap, model, checker_filter, kwargs) ==
    IF NotDiscovered(chk) THEN Abort(RunState(log, heap), "no_checkers")
    ELSE IF ~IsIfcFile(model) THEN Abort(RunState(log, heap), "bad_model")
    ELSE Finished(RunFiles(Started(RunState(log, heap)), chk, 1, model,
                           checker_filter, kwargs))

-----------------------------------------------------------------------------
(* get_summary_by_status() and filter_results() *)

\* Python's None, as the value of a parameter or of a dictionary key.
PyNone == "None"

\* The truth value of a parameter: None and the empty string are false.
Truthy(v) == v # PyNone /\ v # ""

\* d.get(key, default)
Get(d, key, default) == IF key \in DOMAIN d THEN d[key] ELSE default

\* A count that stops at one.
Count_Once(summary, status) == [s \in DOMAIN summary \cup {status} |-> 1]

\* summary[status] = summary.get(status, 0) + 1
Count(summary, status) ==
    [s \in DOMAIN summary \cup {status} |->
        (IF s \in DOMAIN summary THEN summary[s] ELSE 0)
        + (IF s = status THEN 1 ELSE 0)]

\* The loop of get_summary_by_status over results, from element i on.
RECURSIVE SummaryLoop(_, _, _)
SummaryLoop(summary, results, i) ==
    IF i > Len(results) THEN summary
    ELSE SummaryLoop(Count(summary, Get(results[i], "check_status", "unknown")),
                     results, i + 1)

\* get_summary_by_status(results): the list is read, the mapping returned.
GetSummaryByStatus(results) ==
    [results |-> results, out |-> <<>>,
     summary |-> SummaryLoop([s \in {} |-> 0], results, 1)]

\* A comprehension that keeps every record.
Matching_Any(filtered, key, value) == filtered

\* [r for r in filtered if r.get(key) == value]
Matching(filtered, key, value) ==
    SelectSeq(filtered, LAMBDA r : Get(r, key, PyNone) = value)

\* The two tests of filter_results, one after the other.
ByStatus(filtered, status) ==
    IF Truthy(status) THEN Matching(filtered, "check_status", status)
    ELSE filtered

ByElementType(filtered, element_type) ==
    IF Truthy(element_type) THEN Matching(filtered, "element_type", element_type)
    ELSE filtered

\* A filter_results that joins its criteria with OR.
FilterResults_Or(results, status, element_type) ==
    [results |-> results,
     out |-> SelectSeq(results,
                 LAMBDA r : \/ Get(r, "check_status", PyNone) = status
                            \/ Get(r, "element_type", PyNone) = element_type),
     summary |-> <<>>]

\* filter_results(results, status, element_type): the list is read and a
\* list is returned, the list itself when no test is made.
FilterResults(results, status, element_type) ==
    [results |-> results,
     out |-> ByElementType(ByStatus(results, status), element_type),
     summary |-> <<>>]

-----------------------------------------------------------------------------
(* The command line: run_checks.py *)

\* load_ifc_model(ifc_path): the path may be of no file ("missing"), of a
\* file that ifcopenshell cannot open ("corrupt"), or of a model file.
LoadIfcModel(ifc_path) ==
    CASE ifc_path = "missing" ->
             [raised |-> TRUE, error |-> "FileNotFoundError", model |-> PyNone]
      [] ifc_path = "corrupt" ->
             [raised |-> TRUE, error |-> "Exception", model |-> PyNone]
      [] OTHER -> [raised |-> FALSE, error |-> "none", model |-> "ifc"]

\* CheckerOrchestrator(tools_dir): the fields of a new engine.
NewEngine ==
    [checkers |-> <<>>, loaded |-> <<>>, log |-> <<>>, heap |-> <<>>,
     raised |-> FALSE]

\* get_orchestrator(tools_path): a new engine, and discover() on it.
GetOrchestrator(dir) == DiscoverCall(NewEngine, dir)

\* What run_checks_on_model leaves: the engine it made, what it printed
\* and what it returned.
Outcome(error, d, r, printed, failures) ==
    [error |-> error, checkers |-> d.checkers, loaded |-> d.loaded,
     log |-> r.log, heap |-> r.heap, report |-> r.report,
     printed |-> printed, failures |-> failures,
     returned |-> IF error = "none" THEN "result" ELSE PyNone]

\* except Exception as e: the message goes to stderr, None is returned.
Caught(error, d, r) == Outcome(error, d, r, "none", 0)

\* The output for a report: with the format summary, the failures too,
\* which filter_results finds in the records of the report.
Shown(d, r, output_format) ==
    Outcome("none", d, r, output_format,
            IF output_format = "summary"
            THEN Len(FilterResults([i \in 1..Len(r.report[1].results) |->
                                       r.heap[r.report[1].results[i]]],
                                   "fail", PyNone).out)
            ELSE 0)

\* After get_orchestrator: run() on the model and the output.
Checks(d, r, output_format) ==
    IF r.raised THEN Caught("OrchestratorError", d, r)
    ELSE Shown(d, r, output_format)

\* After load_ifc_model: get_orchestrator and the rest.
Orchestrated(model, d, filter_checker, output_format) ==
    IF d.raised THEN Caught("OrchestratorError", d, RunState(d.log, d.heap))
    ELSE Checks(d, RunCall(d.checkers, d.log, d.heap, model, filter_checker,
                           {}),
                output_format)

\* run_checks_on_model(ifc_path, tools_dir, verbose, filter_checker,
\* output_format); verbose only adds the trace to what is printed.
RunChecksOnModel(ifc_path, dir, filter_checker, output_format) ==
    IF LoadIfcModel(ifc_path).raised
    THEN Caught(LoadIfcModel(ifc_path).error, NewEngine, RunState(<<>>, <<>>))
    ELSE Orchestrated(LoadIfcModel(ifc_path).model, GetOrchestrator(dir),
                      filter_checker, output_format)

\* The exit status of the process: main() discards what
\* run_checks_on_model returns and ends, and the interpreter exits with 0.
ExitStatus(returned) == 0

-----------------------------------------------------------------------------
(* The shipped rules: src/tools/checker_*.py *)

\* A value that may be None: <<>> is None and <<v>> is the value v.
NoValue == <<>>

\* A formatted string: the text of an f-string and the values of its fields.
F(template, args) == [template |-> template, args |-> args]

\* Widths are in tenths of a millimetre: {x:.3f} of a width in metres gives
\* its millimetres, rounded, and {x:.0f} of x*39.37 its inches, rounded.
\* Heights are in centimetres, treads and risers in millimetres, U-values
\* in hundredths: their formats round nothing.
Fixed3(x) == (x + 5) \div 10
Inches(x) == (x * 3937 + 500000) \div 1000000

\* The defaults of the rules' parameters.
DefaultMinWidth == 8128
DefaultMinHeight == 240
DefaultMinTread == 280
DefaultMaxRiser == 190
DefaultMaxUValue == 200
DefaultRating == <<"F", "6", "0">>

\* "Width", which the door rule looks for in the names of properties.
P_Width == <<"W", "i", "d", "t", "h">>

\* A dictionary with the nine keys, as the rules build it.
Result(id, etype, name, status, actual, required, comment) ==
    [element_id |-> id, element_type |-> etype, element_name |-> name,
     element_name_long |-> PyNone, check_status |-> status,
     actual_value |-> actual, required_value |-> required,
     comment |-> comment, log |-> PyNone]

\* A record for no entity that reports a pass.
NoneFound_Pass(name, required, comment) ==
    Result(PyNone, "Summary", F(name, <<>>), "pass", F("0", <<>>),
           F(required, <<>>), F(comment, <<>>))

\* The one record of a rule that found no entity of its type.
NoneFound(name, required, comment) ==
    Result(PyNone, "Summary", F(name, <<>>), "warning", F("0", <<>>),
           F(required, <<>>), F(comment, <<>>))

\* hasattr(entity, attribute): an entity has the attributes of its type.
HasAttr(entity, attribute) == attribute \in DOMAIN entity

\* entity.Name or f"<Type> #{entity.id()}"
NameOr(entity, template) ==
    IF entity.Name \in {PyNone, ""} THEN F(template, <<entity.id>>)
    ELSE F(entity.Name, <<>>)

\* The properties of property sets, in the order of the nested loops.
RECURSIVE Properties(_)
Properties(psets) ==
    IF psets = <<>> THEN <<>>
    ELSE Head(psets).HasProperties \o Properties(Tail(psets))

\* The number of records with a status: the counters passed and failed.
Tally(results, status) ==
    Cardinality({i \in 1..Len(results) : results[i]["check_status"] = status})

\* The records of the loop over the entities with the summary record of
\* the door, room, stair and window rules appended: "pass" if failed == 0
\* else "fail", the three counters, and a comment.
WithSummary(results, name, required, failing, passing) ==
    Append(results,
        Result(PyNone, "Summary", F(name, <<>>),
               IF Tally(results, "fail") = 0 THEN "pass" ELSE "fail",
               F("Passed: {}, Failed: {}, Unspecified: {}",
                 <<Tally(results, "pass"), Tally(results, "fail"),
                   Len(results) - Tally(results, "pass")
                                - Tally(results, "fail")>>),
               required,
               IF Tally(results, "fail") > 0
               THEN F(failing, <<Len(results), Tally(results, "fail")>>)
               ELSE F(passing, <<Len(results)>>)))

(* check_door_accessibility *)

\* The loop over the properties of a door, from property i on: a property
\* named Width without a value ends it (the except clause).
RECURSIVE WidthProperty(_, _, _)
WidthProperty(props, i, width) ==
    IF i > Len(props) THEN width
    ELSE IF ~Contains(props[i].Name, P_Width)
    THEN WidthProperty(props, i + 1, width)
    ELSE IF props[i].NominalValue = NoValue THEN width
    ELSE WidthProperty(props, i + 1, props[i].NominalValue)

\* The variable width after the two sources have been looked at.
DoorWidth(door) ==
    IF HasAttr(door, "OverallWidth") THEN door.OverallWidth
    ELSE WidthProperty(Properties(door.IsDefinedBy), 1, NoValue)

\* The record of one door, its width being width.
DoorResult(door, width, min_width) ==
    Result(door.GlobalId, "IfcDoor", NameOr(door, "Door #{}"),
           IF width = NoValue THEN "log"
           ELSE IF width[1] >= min_width THEN "pass" ELSE "fail",
           IF width = NoValue \/ width = <<0>> THEN F("Not specified", <<>>)
           ELSE F("{:.3f}m", <<Fixed3(width[1])>>),
           F(">= {:.3f}m ({:.0f} inches)",
             <<Fixed3(min_width), Inches(min_width)>>),
           IF width = NoValue THEN F("Door width not specified in model", <<>>)
           ELSE IF width[1] >= min_width
           THEN F("Door width {:.3f}m meets accessibility standard (>= {:.3f}m)",
                  <<Fixed3(width[1]), Fixed3(min_width)>>)
           ELSE F("Door width {:.3f}m does NOT meet accessibility standard (>= {:.3f}m)",
                  <<Fixed3(width[1]), Fixed3(min_width)>>))

CheckDoorAccessibility(model, min_width) ==
    IF model["IfcDoor"] = <<>>
    THEN <<NoneFound("Door Accessibility Check", ">= 1 door",
                     "No doors found in model")>>
    ELSE WithSummary([i \in 1..Len(model["IfcDoor"]) |->
                         DoorResult(model["IfcDoor"][i],
                                    DoorWidth(model["IfcDoor"][i]), min_width)],
                     "Door Accessibility Check",
                     F("All doors >= 0.8128m wide", <<>>),
                     "Checked {} door(s). {} door(s) failed accessibility check.",
                     "All {} door(s) pass accessibility check.")

(* check_room_heights and check_window_thermal *)

\* The loop over the properties for a number: the last property whose name
\* holds one of the words and that has a value gives it; float(None) is
\* caught and passed over.
RECURSIVE NumberProperty(_, _, _, _)
NumberProperty(props, i, words, number) ==
    IF i > Len(props) THEN number
    ELSE IF (\E w \in words : Contains(props[i].Name, w))
            /\ props[i].NominalValue # NoValue
    THEN NumberProperty(props, i + 1, words, props[i].NominalValue)
    ELSE NumberProperty(props, i + 1, words, number)

\* "Height" in prop.Name or "Ceiling" in prop.Name
HeightWords ==
    {<<"H", "e", "i", "g", "h", "t">>, <<"C", "e", "i", "l", "i", "n", "g">>}

\* The record of one space, its height being height.
RoomResult(space, height, min_height) ==
    Result(space.GlobalId, "IfcSpace", NameOr(space, "Space #{}"),
           IF height = NoValue THEN "log"
           ELSE IF height[1] >= min_height THEN "pass" ELSE "fail",
           IF height = NoValue THEN F("Not specified", <<>>)
           ELSE F("{:.2f}m", height),
           F(">= {:.2f}m", <<min_height>>),
           IF height = NoValue THEN F("Room height not specified in model", <<>>)
           ELSE IF height[1] >= min_height
           THEN F("Room height {:.2f}m meets minimum standard (>= {:.2f}m)",
                  <<height[1], min_height>>)
           ELSE F("Room height {:.2f}m BELOW minimum standard (>= {:.2f}m)",
                  <<height[1], min_height>>))

CheckRoomHeights(model, min_height) ==
    IF model["IfcSpace"] = <<>>
    THEN <<NoneFound("Room Height Check", ">= 1 room/space",
                     "No spaces/rooms found in model")>>
    ELSE WithSummary([i \in 1..Len(model["IfcSpace"]) |->
                         RoomResult(model["IfcSpace"][i],
                             NumberProperty(
                                 Properties(model["IfcSpace"][i].IsDefinedBy),
                                 1, HeightWords, NoValue),
                             min_height)],
                     "Room Height Check",
                     F("All rooms >= {:.2f}m height", <<min_height>>),
                     "Checked {} room(s). {} below minimum height.",
                     "All {} room(s) meet height requirement.")

\* "U-value" in prop.Name or "Uvalue" in prop.Name or
\* "ThermalTransmittance" in prop.Name
UValueWords ==
    {<<"U", "-", "v", "a", "l", "u", "e">>, <<"U", "v", "a", "l", "u", "e">>,
     <<"T", "h", "e", "r", "m", "a", "l", "T", "r", "a", "n", "s", "m", "i",
       "t", "t", "a", "n", "c", "e">>}

\* The record of one window, its U-value being u_value.
WindowResult(window, u_value, max_u_value) ==
    Result(window.GlobalId, "IfcWindow", NameOr(window, "Window #{}"),
           IF u_value = NoValue THEN "log"
           ELSE IF u_value[1] <= max_u_value THEN "pass" ELSE "fail",
           IF u_value = NoValue THEN F("Not specified", <<>>)
           ELSE F("{:.2f} W/(m2 K)", u_value),
           F("<= {:.2f} W/(m2 K)", <<max_u_value>>),
           IF u_value = NoValue
           THEN F("Window U-value not specified in model", <<>>)
           ELSE IF u_value[1] <= max_u_value
           THEN F("Window U-value {:.2f} W/(m2 K) meets thermal standard (<= {:.2f})",
                  <<u_value[1], max_u_value>>)
           ELSE F("Window U-value {:.2f} W/(m2 K) EXCEEDS thermal standard (<= {:.2f})",
                  <<u_value[1], max_u_value>>))

CheckWindowThermal(model, max_u_value) ==
    IF model["IfcWindow"] = <<>>
    THEN <<NoneFound("Window Thermal Check", ">= 1 window",
                     "No windows found in model")>>
    ELSE WithSummary([i \in 1..Len(model["IfcWindow"]) |->
                         WindowResult(model["IfcWindow"][i],
                             NumberProperty(
                                 Properties(model["IfcWindow"][i].IsDefinedBy),
                                 1, UValueWords, NoValue),
                             max_u_value)],
                     "Window Thermal Check",
                     F("All windows U-value <= {:.2f} W/(m2 K)", <<max_u_value>>),
                     "Checked {} window(s). {} failed thermal check.",
                     "All {} window(s) meet thermal standard.")

(* check_stair_dimensions *)

\* "Tread" in prop_name or "tread" in prop_name.lower(), and the same
\* for "Riser"
Names(prop_name, word) ==
    Contains(prop_name, word) \/ Contains(Lower(prop_name), Lower(word))

\* The loop over the properties of a stair: dims holds tread_depth and
\* riser_height; a property without a value is passed over (continue).
RECURSIVE StairProperties(_, _, _)
StairProperties(props, i, dims) ==
    IF i > Len(props) THEN dims
    ELSE IF props[i].NominalValue = NoValue
    THEN StairProperties(props, i + 1, dims)
    ELSE IF Names(props[i].Name, <<"T", "r", "e", "a", "d">>)
    THEN StairProperties(props, i + 1,
                         [dims EXCEPT !.tread = props[i].NominalValue])
    ELSE IF Names(props[i].Name, <<"R", "i", "s", "e", "r">>)
    THEN StairProperties(props, i + 1,
                         [dims EXCEPT !.riser = props[i].NominalValue])
    ELSE StairProperties(props, i + 1, dims)

\* The status of a stair: tread_pass and riser_pass count when both
\* dimensions are known.
StairStatus(dims, min_tread, max_riser) ==
    IF dims.tread = NoValue \/ dims.riser = NoValue THEN "log"
    ELSE IF dims.tread[1] >= min_tread /\ dims.riser[1] <= max_riser
    THEN "pass" ELSE "fail"

\* The record of one stair. The fields of its texts are the tread and the
\* riser, each None where the text leaves it out: actual_value and the
\* comment of a "log" name the dimensions that are known, the comment of a
\* "fail" those that fail.
StairResult(stair, dims, min_tread, max_riser) ==
    Result(stair.GlobalId, "IfcStair", NameOr(stair, "Stair #{}"),
           StairStatus(dims, min_tread, max_riser),
           IF dims.tread = NoValue /\ dims.riser = NoValue
           THEN F("Not specified", <<>>)
           ELSE F("T:{:.3f}m, R:{:.3f}m", <<dims.tread, dims.riser>>),
           F("Tread >= {:.3f}m, Riser <= {:.3f}m", <<min_tread, max_riser>>),
           CASE StairStatus(dims, min_tread, max_riser) = "log" ->
                    F("Stair dimensions partially specified: {}",
                      <<dims.tread, dims.riser>>)
             [] StairStatus(dims, min_tread, max_riser) = "pass" ->
                    F("Stair dimensions meet code: tread={:.3f}m, riser={:.3f}m",
                      <<dims.tread, dims.riser>>)
             [] OTHER ->
                    F("Stair dimensions FAIL code: {}",
                      <<IF dims.tread[1] < min_tread THEN dims.tread
                        ELSE NoValue,
                        IF dims.riser[1] > max_riser THEN dims.riser
                        ELSE NoValue>>))

CheckStairDimensions(model, min_tread, max_riser) ==
    IF model["IfcStair"] = <<>>
    THEN <<NoneFound("Stair Dimensions Check", ">= 1 stair",
                     "No stairs found in model")>>
    ELSE WithSummary([i \in 1..Len(model["IfcStair"]) |->
                         StairResult(model["IfcStair"][i],
                             StairProperties(
                                 Properties(model["IfcStair"][i].IsDefinedBy),
                                 1, [tread |-> NoValue, riser |-> NoValue]),
                             min_tread, max_riser)],
                     "Stair Dimensions Check",
                     F("All stairs meet code dimensions", <<>>),
                     "Checked {} stair(s). {} failed dimension check.",
                     "All {} stair(s) meet code dimensions.")

(* check_wall_fire_rating *)

\* The property sets that the loop over IsDefinedBy gets to when it reads
\* the name of each as a string: it ends at a set whose name is None (the
\* except clause).
RECURSIVE Named(_)
Named(psets) ==
    IF psets = <<>> THEN <<>>
    ELSE IF Head(psets).Name = NoValue THEN <<>>
    ELSE <<Head(psets)>> \o Named(Tail(psets))

\* The loop over the properties for the rating: a property without a value
\* gives str(None).
RECURSIVE RatingProperty(_, _, _)
RatingProperty(props, i, fire_rating) ==
    IF i > Len(props) THEN fire_rating
    ELSE IF Contains(props[i].Name, <<"R", "a", "t", "i", "n", "g">>) \/ Contains(props[i].Name, <<"C", "l", "a", "s", "s">>)
    THEN RatingProperty(props, i + 1,
                        IF props[i].NominalValue = NoValue THEN <<<<"N", "o", "n", "e">>>>
                        ELSE props[i].NominalValue)
    ELSE RatingProperty(props, i + 1, fire_rating)

\* The variable fire_rating after the loops: the properties read are those
\* of the sets whose name holds "Fire".
FireRating(wall) ==
    RatingProperty(Properties(SelectSeq(Named(wall.IsDefinedBy),
                                  LAMBDA ps : Contains(ps.Name[1], <<"F", "i", "r", "e">>))),
                   1, NoValue)

\* The status of a wall: None and the empty string are no rating.
WallStatus(fire_rating, required_rating) ==
    IF fire_rating = NoValue \/ fire_rating = <<<<>>>> THEN "warning"
    ELSE IF fire_rating[1] = required_rating
            \/ Contains(fire_rating[1], required_rating)
    THEN "pass" ELSE "fail"

\* The record of one wall, its rating being fire_rating.
WallResult(wall, fire_rating, required_rating) ==
    Result(wall.GlobalId, "IfcWall", NameOr(wall, "Wall #{}"),
           WallStatus(fire_rating, required_rating),
           IF WallStatus(fire_rating, required_rating) = "warning"
           THEN F("Not specified", <<>>) ELSE F("{}", fire_rating),
           F("{}", <<required_rating>>),
           CASE WallStatus(fire_rating, required_rating) = "warning" ->
                    F("Fire rating not specified in model", <<>>)
             [] WallStatus(fire_rating, required_rating) = "pass" ->
                    F("Wall has required fire rating: {}", fire_rating)
             [] OTHER ->
                    F("Wall fire rating {} does NOT meet requirement of {}",
                      <<fire_rating[1], required_rating>>))

\* The records of the loop over the walls with the summary record of the
\* wall rule appended: "pass" if failed == 0 and unspecified == 0 else
\* ("warning" if failed == 0 else "fail").
WithWallSummary(results, required_rating) ==
    Append(results,
        Result(PyNone, "Summary", F("Wall Fire Rating Check", <<>>),
               IF Tally(results, "fail") = 0 /\ Tally(results, "warning") = 0
               THEN "pass"
               ELSE IF Tally(results, "fail") = 0 THEN "warning" ELSE "fail",
               F("Passed: {}, Failed: {}, Unspecified: {}",
                 <<Tally(results, "pass"), Tally(results, "fail"),
                   Tally(results, "warning")>>),
               F("All walls rated {}", <<required_rating>>),
               IF Tally(results, "fail") > 0 \/ Tally(results, "warning") > 0
               THEN F("Checked {} wall(s). {} failed, {} unspecified.",
                      <<Len(results), Tally(results, "fail"),
                        Tally(results, "warning")>>)
               ELSE F("All {} wall(s) have fire rating specified.",
                      <<Len(results)>>)))

CheckWallFireRating(model, required_rating) ==
    IF model["IfcWall"] = <<>>
    THEN <<NoneFound("Wall Fire Rating Check", ">= 1 wall",
                     "No walls found in model")>>
    ELSE WithWallSummary([i \in 1..Len(model["IfcWall"]) |->
                             WallResult(model["IfcWall"][i],
                                        FireRating(model["IfcWall"][i]),
                                        required_rating)],
                         required_rating)

-----------------------------------------------------------------------------
(* The models that the rules are run on *)

\* A property set: its name, or None, and its properties as pairs of a
\* name and a value, or None.
Pset(name, props) ==
    [Name |-> name,
     HasProperties |-> [i \in 1..Len(props) |->
                           [Name |-> props[i][1], NominalValue |-> props[i][2]]]]

Entity(gid, id, name, psets) ==
    [GlobalId |-> gid, id |-> id, Name |-> name, IsDefinedBy |-> psets]

\* An IfcDoor has the attribute OverallWidth, with a value or None.
Door(gid, id, name, overall, psets) ==
    [GlobalId |-> gid, id |-> id, Name |-> name, OverallWidth |-> overall,
     IsDefinedBy |-> psets]

Doors ==
    {Door("d1", 1, "Main", <<9000>>, <<>>),
     Door("d2", 2, PyNone, <<7000>>, <<>>),
     Door("d3", 3, "Side", NoValue,
          <<Pset(<<<<"P", "s", "e", "t", "_", "C", "o", "m", "m", "o", "n">>>>, <<<<<<"C", "l", "e", "a", "r", "W", "i", "d", "t", "h">>, <<7000>>>>>>)>>),
     Door("d4", 4, "", NoValue, <<>>),
     Door("d5", 5, "Hatch", <<0>>, <<>>),
     Door("d6", 6, "Exit", <<DefaultMinWidth>>,
          <<Pset(NoValue, <<<<<<"W", "i", "d", "t", "h">>, NoValue>>,
                            <<<<"C", "l", "e", "a", "r", "W", "i", "d", "t", "h">>, <<7000>>>>>>)>>)}

Spaces ==
    {Entity("s1", 11, "Hall",
            <<Pset(<<<<"P", "s", "e", "t", "_", "C", "o", "m", "m", "o", "n">>>>, <<<<<<"H", "e", "i", "g", "h", "t">>, <<300>>>>>>)>>),
     Entity("s2", 12, PyNone,
            <<Pset(<<<<"P", "s", "e", "t", "_", "C", "o", "m", "m", "o", "n">>>>, <<<<<<"C", "e", "i", "l", "i", "n", "g", "L", "e", "v", "e", "l">>, <<200>>>>,
                                        <<<<"H", "e", "i", "g", "h", "t">>, NoValue>>>>)>>),
     Entity("s3", 13, "Shaft", <<>>)}

Stairs ==
    {Entity("t1", 21, "Main stair",
            <<Pset(<<<<"P", "s", "e", "t", "_", "C", "o", "m", "m", "o", "n">>>>, <<<<<<"T", "r", "e", "a", "d", "L", "e", "n", "g", "t", "h">>, <<300>>>>,
                                        <<<<"R", "i", "s", "e", "r", "H", "e", "i", "g", "h", "t">>, <<180>>>>>>)>>),
     Entity("t2", 22, PyNone,
            <<Pset(<<<<"P", "s", "e", "t", "_", "C", "o", "m", "m", "o", "n">>>>, <<<<<<"t", "r", "e", "a", "d", "L", "e", "n", "g", "t", "h">>, <<250>>>>>>),
              Pset(NoValue, <<<<<<"R", "i", "s", "e", "r", "H", "e", "i", "g", "h", "t">>, <<200>>>>>>)>>),
     Entity("t3", 23, "Ladder",
            <<Pset(<<<<"P", "s", "e", "t", "_", "C", "o", "m", "m", "o", "n">>>>, <<<<<<"R", "i", "s", "e", "r", "H", "e", "i", "g", "h", "t">>, <<180>>>>,
                                        <<<<"T", "r", "e", "a", "d", "L", "e", "n", "g", "t", "h">>, NoValue>>>>)>>)}

Walls ==
    {Entity("w1", 31, "Core",
            <<Pset(<<<<"P", "s", "e", "t", "_", "F", "i", "r", "e", "S", "a", "f", "e", "t", "y">>>>, <<<<<<"F", "i", "r", "e", "R", "a", "t", "i", "n", "g">>, <<<<"F", "6", "0">>>>>>>>)>>),
     Entity("w2", 32, PyNone,
            <<Pset(<<<<"P", "s", "e", "t", "_", "C", "o", "m", "m", "o", "n">>>>, <<<<<<"F", "i", "r", "e", "R", "a", "t", "i", "n", "g">>, <<<<"F", "6", "0">>>>>>>>),
              Pset(<<<<"P", "s", "e", "t", "_", "F", "i", "r", "e", "S", "a", "f", "e", "t", "y">>>>, <<<<<<"F", "i", "r", "e", "R", "a", "t", "i", "n", "g">>, <<<<"F", "3", "0">>>>>>>>)>>),
     Entity("w3", 33, "Partition",
            <<Pset(NoValue, <<>>),
              Pset(<<<<"P", "s", "e", "t", "_", "F", "i", "r", "e", "S", "a", "f", "e", "t", "y">>>>, <<<<<<"F", "i", "r", "e", "R", "a", "t", "i", "n", "g">>, <<<<"F", "6", "0">>>>>>>>)>>),
     Entity("w4", 34, "Facade",
            <<Pset(<<<<"P", "s", "e", "t", "_", "F", "i", "r", "e", "S", "a", "f", "e", "t", "y">>>>, <<<<<<"R", "a", "t", "i", "n", "g", "C", "l", "a", "s", "s">>, NoValue>>>>)>>)}

Windows ==
    {Entity("n1", 41, "North",
            <<Pset(<<<<"P", "s", "e", "t", "_", "C", "o", "m", "m", "o", "n">>>>, <<<<<<"T", "h", "e", "r", "m", "a", "l", "T", "r", "a", "n", "s", "m", "i", "t", "t", "a", "n", "c", "e">>, <<150>>>>>>)>>),
     Entity("n2", 42, PyNone,
            <<Pset(<<<<"P", "s", "e", "t", "_", "C", "o", "m", "m", "o", "n">>>>, <<<<<<"U", "v", "a", "l", "u", "e">>, <<300>>>>>>)>>),
     Entity("n3", 43, "Roof",
            <<Pset(<<<<"P", "s", "e", "t", "_", "C", "o", "m", "m", "o", "n">>>>, <<<<<<"U", "-", "v", "a", "l", "u", "e">>, NoValue>>>>)>>)}

\* The lists of up to MaxEntities entities of a pool.
Lists(pool) == UNION {[1..n -> pool] : n \in 0..MaxEntities}

\* A model with entities of one type only.
Only(type, entities) ==
    [t \in {"IfcDoor", "IfcSpace", "IfcStair", "IfcWall", "IfcWindow"} |->
        IF t = type THEN entities ELSE <<>>]

IfcModels ==
    {Only("IfcDoor", e) : e \in Lists(Doors)}
    \cup {Only("IfcSpace", e) : e \in Lists(Spaces)}
    \cup {Only("IfcStair", e) : e \in Lists(Stairs)}
    \cup {Only("IfcWall", e) : e \in Lists(Walls)}
    \cup {Only("IfcWindow", e) : e \in Lists(Windows)}

\* The keyword arguments given to a rule.
RuleKwargs == {{}, {<<"min_width", 9000>>}}

\* A parameter of a rule: the keyword argument of that name, or the default.
Param(kwargs, name, default) ==
    IF \E p \in kwargs : p[1] = name
    THEN (CHOOSE p \in kwargs : p[1] = name)[2]
    ELSE default

-----------------------------------------------------------------------------
(* The engine *)

VARIABLES
    checkers,        \* self.checkers
    loaded_modules,  \* self.loaded_modules
    execution_log,   \* self.execution_log
    heap,            \* the dictionaries that rules have built
    last,            \* the last call: its arguments and how it ended
    history,         \* every call so far: the operation and how it ended
    reports,         \* the dictionaries that run() has returned, in order
    result_list,     \* a list of records that a caller holds
    answer,          \* the last call of a helper on it: arguments and return
    process,         \* a run of run_checks.py: arguments, output, exit status
    ifc,             \* the entities of a model that a rule is called with
    rule_call        \* the last call of a shipped rule: what it returned

vars ==
    <<checkers, loaded_modules, execution_log, heap, last, history, reports,
      result_list, answer, process, ifc, rule_call>>

NoRuleCall == [rule |-> "none", kwargs |-> {}, results |-> <<>>]

NotStarted ==
    [state |-> "none", ifc_file |-> "missing", tools_dir |-> NoDir,
     verbose |-> FALSE, filter |-> NoFilter, output |-> "summary",
     stderr |-> "none", printed |-> "none", failures |-> 0,
     exit_status |-> 0]

NoAnswer ==
    [op |-> "none", status |-> PyNone, element_type |-> PyNone, pre |-> <<>>,
     out |-> <<>>, summary |-> <<>>]

NoCall ==
    [op |-> "none", raised |-> FALSE, err |-> NoError, dir |-> NoDir,
     model |-> "None", checker_filter |-> NoFilter, kwargs |-> {},
     pre |-> <<>>, pre_loaded |-> <<>>, pre_reports |-> 0, ret |-> <<>>,
     invoked |-> <<>>]

\* __init__
Init ==
    /\ checkers = <<>>
    /\ loaded_modules = <<>>
    /\ execution_log = <<>>
    /\ heap = <<>>
    /\ last = NoCall
    /\ history = <<>>
    /\ reports = <<>>
    /\ result_list = <<>>
    /\ answer = NoAnswer
    /\ process = NotStarted
    /\ ifc = Only("IfcDoor", <<>>)
    /\ rule_call = NoRuleCall

Discover(dir) ==
    /\ Len(history) < MaxCalls
    /\ \E r \in {DiscoverCall([checkers |-> checkers, loaded |-> loaded_modules,
                              log |-> execution_log, heap |-> heap,
                              raised |-> FALSE], dir)} :
          /\ checkers' = r.checkers
          /\ loaded_modules' = r.loaded
          /\ execution_log' = r.log
          /\ heap' = r.heap
          /\ last' = [NoCall EXCEPT
                        !.op = "discover", !.raised = r.raised, !.dir = dir,
                        !.pre = checkers, !.pre_loaded = loaded_modules,
                        !.pre_reports = Len(reports),
                        !.ret = IF r.raised THEN <<>>
                                ELSE DiscoverReturn(r.checkers)]
          /\ history' = Append(history, [op |-> "discover", raised |-> r.raised])
    /\ UNCHANGED <<reports, result_list, answer, process, ifc, rule_call>>

Run(model, checker_filter, kwargs) ==
    /\ Len(history) < MaxCalls
    /\ \E r \in {RunCall(checkers, execution_log, heap, model, checker_filter,
                         kwargs)} :
          /\ execution_log' = r.log
          /\ heap' = r.heap
          /\ reports' = reports \o r.report
          /\ last' = [NoCall EXCEPT
                        !.op = "run", !.raised = r.raised, !.err = r.err,
                        !.model = model, !.checker_filter = checker_filter,
                        !.kwargs = kwargs, !.pre = checkers,
                        !.pre_loaded = loaded_modules,
                        !.pre_reports = Len(reports), !.invoked = r.invoked]
          /\ history' = Append(history, [op |-> "run", raised |-> r.raised])
    /\ UNCHANGED <<checkers, loaded_modules, result_list, answer, process, ifc,
                   rule_call>>

Next ==
    \/ \E dir \in Dirs : Discover(dir)
    \/ \E model \in Models, checker_filter \in Filters, kwargs \in Kwargs :
          Run(model, checker_filter, kwargs)

Spec == Init /\ [][Next]_vars

-----------------------------------------------------------------------------
(* The helpers on a list of records *)

\* The lists given: records with the nine required keys, as run() admits,
\* of two element types and three statuses.
Records ==
    {BaseDict(t, s) : t \in {"IfcDoor", "Summary"}, s \in {"pass", "fail", ""}}
ResultLists == UNION {[1..n -> Records] : n \in 0..MaxResults}

\* A caller holds some list of records; the engine is as constructed.
HelperInit ==
    /\ checkers = <<>>
    /\ loaded_modules = <<>>
    /\ execution_log = <<>>
    /\ heap = <<>>
    /\ last = NoCall
    /\ history = <<>>
    /\ reports = <<>>
    /\ result_list \in ResultLists
    /\ answer = NoAnswer
    /\ process = NotStarted
    /\ ifc = Only("IfcDoor", <<>>)
    /\ rule_call = NoRuleCall

Summarise ==
    /\ \E r \in {GetSummaryByStatus(result_list)} :
          /\ result_list' = r.results
          /\ answer' = [NoAnswer EXCEPT
                          !.op = "get_summary_by_status", !.pre = result_list,
                          !.summary = r.summary]
    /\ UNCHANGED <<checkers, loaded_modules, execution_log, heap, last,
                   history, reports, process, ifc, rule_call>>

Filtering(status, element_type) ==
    /\ \E r \in {FilterResults(result_list, status, element_type)} :
          /\ result_list' = r.results
          /\ answer' = [NoAnswer EXCEPT
                          !.op = "filter_results", !.status = status,
                          !.element_type = element_type, !.pre = result_list,
                          !.out = r.out]
    /\ UNCHANGED <<checkers, loaded_modules, execution_log, heap, last,
                   history, reports, process, ifc, rule_call>>

\* The values given for status and for element_type are those of the
\* records, one that no record has, the empty string and None, the default.
HelperNext ==
    \/ Summarise
    \/ \E status \in {"pass", "fail", "", "warning", PyNone},
          element_type \in {"IfcDoor", "Summary", "IfcWall", "", PyNone} :
          Filtering(status, element_type)

HelperSpec == HelperInit /\ [][HelperNext]_vars

-----------------------------------------------------------------------------
(* The command line *)

\* One run of run_checks.py, from main() to the exit of the process. The
\* engine's fields are those of the orchestrator that the run made.
Main(ifc_file, dir, verbose, filter_checker, output_format) ==
    /\ process.state = "none"
    /\ \E o \in {RunChecksOnModel(ifc_file, dir, filter_checker,
                                   output_format)} :
          /\ checkers' = o.checkers
          /\ loaded_modules' = o.loaded
          /\ execution_log' = o.log
          /\ heap' = o.heap
          /\ reports' = o.report
          /\ process' = [state |-> "exited", ifc_file |-> ifc_file,
                         tools_dir |-> dir, verbose |-> verbose,
                         filter |-> filter_checker, output |-> output_format,
                         stderr |-> o.error, printed |-> o.printed,
                         failures |-> o.failures,
                         exit_status |-> ExitStatus(o.returned)]
    /\ UNCHANGED <<last, history, result_list, answer, ifc, rule_call>>

CliNext ==
    \E ifc_file \in {"missing", "corrupt", "model"}, dir \in Dirs,
       verbose \in BOOLEAN, filter_checker \in Filters,
       output_format \in {"summary", "detailed", "json"} :
        Main(ifc_file, dir, verbose, filter_checker, output_format)

CliSpec == Init /\ [][CliNext]_vars

-----------------------------------------------------------------------------
(* The shipped rules, called on a model *)

\* A rule is called on some model; the engine is as constructed.
RuleInit ==
    /\ checkers = <<>>
    /\ loaded_modules = <<>>
    /\ execution_log = <<>>
    /\ heap = <<>>
    /\ last = NoCall
    /\ history = <<>>
    /\ reports = <<>>
    /\ result_list = <<>>
    /\ answer = NoAnswer
    /\ process = NotStarted
    /\ ifc \in IfcModels
    /\ rule_call = NoRuleCall

\* The variables that a call of a rule leaves as they are: a rule reads the
\* model and writes to nothing.
rule_frame ==
    <<checkers, loaded_modules, execution_log, heap, last, history, reports,
      result_list, answer, process, ifc>>

DoorRule(kwargs) ==
    /\ rule_call' =
          [rule |-> "check_door_accessibility", kwargs |-> kwargs,
           results |-> CheckDoorAccessibility(ifc,
                           Param(kwargs, "min_width", DefaultMinWidth))]
    /\ UNCHANGED rule_frame

RoomRule(kwargs) ==
    /\ rule_call' =
          [rule |-> "check_room_heights", kwargs |-> kwargs,
           results |-> CheckRoomHeights(ifc,
                           Param(kwargs, "min_height", DefaultMinHeight))]
    /\ UNCHANGED rule_frame

StairRule(kwargs) ==
    /\ rule_call' =
          [rule |-> "check_stair_dimensions", kwargs |-> kwargs,
           results |-> CheckStairDimensions(ifc,
                           Param(kwargs, "min_tread", DefaultMinTread),
                           Param(kwargs, "max_riser", DefaultMaxRiser))]
    /\ UNCHANGED rule_frame

WallRule(kwargs) ==
    /\ rule_call' =
          [rule |-> "check_wall_fire_rating", kwargs |-> kwargs,
           results |-> CheckWallFireRating(ifc,
                           Param(kwargs, "required_rating", DefaultRating))]
    /\ UNCHANGED rule_frame

WindowRule(kwargs) ==
    /\ rule_call' =
          [rule |-> "check_window_thermal", kwargs |-> kwargs,
           results |-> CheckWindowThermal(ifc,
                           Param(kwargs, "max_u_value", DefaultMaxUValue))]
    /\ UNCHANGED rule_frame

RuleNext ==
    \E kwargs \in RuleKwargs :
        \/ DoorRule(kwargs)
        \/ RoomRule(kwargs)
        \/ StairRule(kwargs)
        \/ WallRule(kwargs)
        \/ WindowRule(kwargs)

RuleSpec == RuleInit /\ [][RuleNext]_vars

-----------------------------------------------------------------------------
(* Vocabulary of the properties *)

\* The rules of a registry in iteration order, as <<file, function>> pairs.
RECURSIVE AllRules(_)
AllRules(chk) ==
    IF chk = <<>> THEN <<>>
    ELSE [j \in 1..Len(Head(chk).val) |->
             [file |-> Head(chk).key, func |-> Head(chk).val[j].key]]
         \o AllRules(Tail(chk))

FilterSelects(f, file) ==
    ~f.given \/ f.s = <<>> \/ Contains(Lower(file), Lower(f.s))

SelectedRules(chk, f) ==
    SelectSeq(AllRules(chk), LAMBDA r : FilterSelects(f, r.file))

Range(q) == {q[i] : i \in 1..Len(q)}

\* The last call was a run() that met both preconditions.
RanPastGuards ==
    last.op = "run" /\ Len(last.pre) > 0 /\ last.model = "ifc"

\* The last call was a run() that returned a new report.
Reported == last.op = "run" /\ Len(reports) = last.pre_reports + 1
LastReport == reports[Len(reports)]

TaggedBy(id, file, func) ==
    /\ ProvenanceKeys \subseteq DOMAIN heap[id]
    /\ heap[id]["_checker_file"] = file
    /\ heap[id]["_checker_function"] = func

\* C1: in run(), a rule that raises does not keep the rules after it from
\* being invoked (every selected rule is invoked, in order), it is counted
\* as exactly one failed rule, and no record of it is in the results.
C1_RaisingRuleIsIsolated ==
    RanPastGuards =>
        LET sel == SelectedRules(last.pre, last.checker_filter)
            inv == last.invoked
        IN /\ Len(inv) = Len(sel)
           /\ \A k \in 1..Len(inv) :
                 inv[k].file = sel[k].file /\ inv[k].func = sel[k].func
           /\ Reported
           /\ LET det == LastReport.summary.checker_details
              IN /\ Len(det) = Len(inv)
                 /\ LastReport.summary.failed_checkers =
                      Cardinality({k \in 1..Len(det) : det[k].status = "failed"})
                 /\ \A k \in 1..Len(inv) :
                       inv[k].raised =>
                         /\ det[k].status = "failed"
                         /\ det[k].checker = <<inv[k].file, inv[k].func>>
                         /\ \A id \in Range(LastReport.results) :
                               ~TaggedBy(id, inv[k].file, inv[k].func)

\* A run in which a rule raised and the rule after it was invoked and
\* returned its records.
C1_Witness ==
    /\ Reported
    /\ \E k \in 1..(Len(last.invoked) - 1) :
          /\ last.invoked[k].raised
          /\ ~last.invoked[k + 1].raised
          /\ LastReport.summary.checker_details[k + 1].status = "success"
          /\ LastReport.summary.checker_details[k + 1].result_count > 0

\* The returned list of invocation v fails validation at some element.
FailsValidation(v) ==
    /\ ~v.raised
    /\ v.islist
    /\ \E i \in 1..Len(v.items) :
          ~v.items[i].isdict \/ MissingKeys(heap[v.items[i].ref]) # {}

\* C2: in run(), when a rule's returned list fails validation at any
\* element, none of the records of that list is in the report's results,
\* the rule is recorded as failed with its error message, and the next
\* rule is invoked.
C2_InvalidOutputIsDiscardedEntirely ==
    RanPastGuards =>
        /\ Reported
        /\ Len(last.invoked) =
             Len(SelectedRules(last.pre, last.checker_filter))
        /\ \A k \in 1..Len(last.invoked) :
              FailsValidation(last.invoked[k]) =>
                /\ LastReport.summary.checker_details[k].status = "failed"
                /\ "error" \in DOMAIN LastReport.summary.checker_details[k]
                /\ \A i \in 1..Len(last.invoked[k].items) :
                      last.invoked[k].items[i].isdict =>
                        last.invoked[k].items[i].ref
                          \notin Range(LastReport.results)

\* C3: when discover() raises because a module fails to load, the
\* registry is exactly as it was before the call.
C3_FailedDiscoverLeavesRegistryUntouched ==
    (last.op = "discover" /\ last.raised /\ last.dir.exists) =>
        checkers = last.pre

\* What a directory holds: the rule modules (globbed, not the template)
\* with the names of their check_ callables, those without any left out.
RuleNames(src) ==
    {m.name : m \in {x \in src.members :
                       x.callable /\ StartsWith(x.name, CheckPrefix)}}
FoundIn(dir) ==
    {<<f, RuleNames(dir.text[f])>> :
        f \in {g \in dir.names : /\ GlobMatch(g)
                                  /\ g # TemplateName
                                  /\ RuleNames(dir.text[g]) # {}}}

\* A registry, or the mapping discover() returns, as such a set.
Registered(chk) ==
    {<<chk[i].key, {chk[i].val[j].key : j \in 1..Len(chk[i].val)}>> :
        i \in 1..Len(chk)}
Returned2(ret) == {<<ret[i].key, Range(ret[i].val)>> : i \in 1..Len(ret)}

\* C4: after any successful discover(), the registry and the returned
\* mapping hold exactly the rule modules and rules found by that call.
C4_DiscoverReplacesRegistry ==
    (last.op = "discover" /\ ~last.raised) =>
        /\ Registered(checkers) = FoundIn(last.dir)
        /\ Returned2(last.ret) = FoundIn(last.dir)

\* C5: run() on an engine on which discover() was never called raises,
\* invokes no rule and produces no report.
C5_RunBeforeDiscoverRaises ==
    (last.op = "run" /\ \A i \in 1..Len(history) : history[i].op # "discover") =>
        /\ last.raised
        /\ last.invoked = <<>>
        /\ reports = <<>>

\* run() with a valid model on an engine that never saw discover().
C5_Witness ==
    /\ last.op = "run"
    /\ last.model = "ifc"
    /\ \A i \in 1..Len(history) : history[i].op # "discover"
    /\ last.err.kind = "no_checkers"

\* C6: run() given a model handle that is not of the model type raises
\* before any rule is invoked, and no report is produced.
C6_WrongModelTypeRaises ==
    (last.op = "run" /\ last.model \in {"str", "None"}) =>
        /\ last.raised
        /\ last.invoked = <<>>
        /\ Len(reports) = last.pre_reports

\* run() with a non-model handle on an engine whose registry holds rules.
C6_Witness ==
    /\ last.op = "run"
    /\ last.model = "None"
    /\ Len(checkers) > 0
    /\ last.err.kind = "bad_model"

\* C7: discover() on a tools directory that does not exist raises, loads
\* no module and adds no registry entry: the registry stays as it was,
\* empty when nothing was discovered before.
C7_MissingDirectoryRaises ==
    (last.op = "discover" /\ ~last.dir.exists) =>
        /\ last.raised
        /\ checkers = last.pre
        /\ loaded_modules = last.pre_loaded
        /\ last.pre = <<>> => checkers = <<>>

\* discover() on a missing directory, on an engine with an empty registry.
C7_Witness ==
    /\ last.op = "discover"
    /\ ~last.dir.exists
    /\ last.raised
    /\ checkers = <<>>
    /\ loaded_modules = <<>>

\* C8 as stated: once a discover() has returned without error, every later
\* run() with a valid model handle returns a report.
C8_RunsOnceDiscoverReturned ==
    (/\ last.op = "run"
     /\ last.model = "ifc"
     /\ \E i \in 1..(Len(history) - 1) :
           history[i].op = "discover" /\ ~history[i].raised) =>
        (~last.raised /\ Len(reports) = last.pre_reports + 1)

\* C8, amended: the engine is Discovered exactly when its registry holds a
\* rule module. A run() returns a report if and only if the registry is
\* not empty and the model handle is of the model type, any number of
\* times, and no call empties a registry that holds a rule module.
C8_RunsIffRegistryNotEmpty ==
    /\ last.op = "run" =>
          /\ last.raised <=> (last.pre = <<>> \/ last.model # "ifc")
          /\ Len(reports) = last.pre_reports + (IF last.raised THEN 0 ELSE 1)
    /\ (last.op # "none" /\ last.pre # <<>>) => checkers # <<>>

\* A second report from the same engine, and before it a discover() that
\* returned normally.
C8_Witness ==
    /\ last.op = "run"
    /\ ~last.raised
    /\ Len(reports) >= 2
    /\ history[1].op = "discover"
    /\ ~history[1].raised

\* C9: a run() that passes its preconditions returns a report with
\* results, summary and log, however many of the selected rules fail.
C9_RunAlwaysReturnsReport ==
    RanPastGuards =>
        /\ ~last.raised
        /\ Reported
        /\ DOMAIN LastReport = {"results", "summary", "log"}
        /\ LastReport.summary.total_checkers =
             Len(SelectedRules(last.pre, last.checker_filter))

\* A report of a run in which every selected rule failed, by raising and
\* by failing validation.
C9_Witness ==
    /\ Reported
    /\ LastReport.summary.total_checkers >= 2
    /\ LastReport.summary.failed_checkers = LastReport.summary.total_checkers
    /\ \E k \in 1..Len(last.invoked) : last.invoked[k].raised
    /\ \E k \in 1..Len(last.invoked) : ~last.invoked[k].raised

AllReportedRecords ==
    UNION {Range(reports[i].results) : i \in 1..Len(reports)}

\* C10 as stated: every record in the results of every report has exactly
\* the nine base keys and the two provenance keys.
C10_RecordsHaveExactlyElevenKeys ==
    \A id \in AllReportedRecords :
        DOMAIN heap[id] = RequiredKeys \cup ProvenanceKeys

\* C10, amended: every record in the results of every report has the nine
\* base keys and the two provenance keys, none missing; keys that the rule
\* added beside them are kept.
C10_RecordsHaveElevenKeys ==
    \A id \in AllReportedRecords :
        (RequiredKeys \cup ProvenanceKeys) \subseteq DOMAIN heap[id]

\* A report that holds a record with a key beside the eleven, and a record
\* admitted from a list whose later element failed validation.
C10_Witness ==
    /\ \E id \in AllReportedRecords :
          DOMAIN heap[id] # RequiredKeys \cup ProvenanceKeys
    /\ Reported
    /\ \E k \in 1..Len(last.invoked) : FailsValidation(last.invoked[k])

-----------------------------------------------------------------------------
\* A registry with its modules put in the sorted order of their names.
ByName(chk) ==
    LET names == Sorted(Range(Keys(chk)))
    IN [i \in 1..Len(names) |-> CHOOSE e \in Range(chk) : e.key = names[i]]

\* C11: run() invokes the selected rules one after the other, the modules
\* in the sorted order of their names and the rules of a module in their
\* discovery order, and the records of a report are in that module order,
\* after any sequence of discover() calls.
C11_RulesRunInSortedModuleOrder ==
    RanPastGuards =>
        LET sel == SelectedRules(ByName(last.pre), last.checker_filter)
            inv == last.invoked
        IN /\ Len(inv) = Len(sel)
           /\ \A k \in 1..Len(inv) :
                 inv[k].file = sel[k].file /\ inv[k].func = sel[k].func
           /\ Reported =>
                 \A i, j \in 1..Len(LastReport.results) :
                     i < j =>
                       ~StrLess(heap[LastReport.results[j]]["_checker_file"],
                                heap[LastReport.results[i]]["_checker_file"])

-----------------------------------------------------------------------------
\* Two characters are the same letter, whatever their case.
SameLetter(c, d) == c = d \/ {c, d} = {"b", "B"}

\* The name holds the string s somewhere, letter case not counted.
HoldsIgnoringCase(name, s) ==
    \E i \in 0..(Len(name) - Len(s)) :
        \A k \in 1..Len(s) : SameLetter(name[i + k], s[k])

\* C12: a run() given a filter string invokes exactly the rules of the
\* modules whose name holds the filter, letter case not counted, skips the
\* rules of every other module, and counts only the invoked rules in
\* summary.total_checkers.
C12_FilterSelectsMatchingModules ==
    (RanPastGuards /\ last.checker_filter.given) =>
        LET matched ==
              SelectSeq(AllRules(last.pre),
                        LAMBDA r : HoldsIgnoringCase(r.file,
                                                     last.checker_filter.s))
            inv == last.invoked
        IN /\ Len(inv) = Len(matched)
           /\ \A k \in 1..Len(inv) :
                 inv[k].file = matched[k].file /\ inv[k].func = matched[k].func
           /\ Reported
           /\ LastReport.summary.total_checkers = Len(matched)
           /\ Len(LastReport.summary.checker_details) = Len(matched)

\* A run whose filter, in the other letter case, selects one of two
\* registered modules: its rules are invoked, the others are skipped.
C12_Witness ==
    /\ RanPastGuards
    /\ last.checker_filter = Filter(<<"b">>)
    /\ Len(last.pre) = 2
    /\ Len(last.invoked) > 0
    /\ Len(last.invoked) < Len(AllRules(last.pre))
    /\ \A k \in 1..Len(last.invoked) : last.invoked[k].file = F_B
    /\ LastReport.summary.total_checkers = Len(last.invoked)

-----------------------------------------------------------------------------
\* The last call was filter_results(results, status=S), S a string.
FilteredByStatus ==
    /\ answer.op = "filter_results"
    /\ answer.status # PyNone
    /\ answer.element_type = PyNone

\* What get_summary_by_status gives for the list of the last call, and its
\* count for a status (none when the mapping has no such key).
SummaryOfPre == GetSummaryByStatus(answer.pre).summary
CountOf(summary, S) == IF S \in DOMAIN summary THEN summary[S] ELSE 0

\* C13 as stated: for every list of records and every status value S,
\* filter_results(results, status=S) returns only records whose
\* check_status is S, as many as get_summary_by_status(results) counts
\* for S.
C13_FilterAgreesWithSummary ==
    FilteredByStatus =>
        /\ \A i \in 1..Len(answer.out) :
              answer.out[i]["check_status"] = answer.status
        /\ Len(answer.out) = CountOf(SummaryOfPre, answer.status)

\* C13, amended: for every list of records and every status S that is not
\* the empty string, filter_results(results, status=S) returns exactly the
\* records whose check_status is S, in their order, as many as
\* get_summary_by_status(results) counts for S (none when S is not a key
\* of that mapping); for the empty string it returns the whole list.
C13_FilterAgreesWithSummaryOfNonEmptyStatus ==
    FilteredByStatus =>
        IF answer.status = ""
        THEN answer.out = answer.pre
        ELSE /\ answer.out =
                  SelectSeq(answer.pre,
                            LAMBDA r : r["check_status"] = answer.status)
             /\ Len(answer.out) = CountOf(SummaryOfPre, answer.status)
             /\ (answer.status \in DOMAIN SummaryOfPre) <=> (answer.out # <<>>)

\* filter_results by a status that two of three records have.
C13_Witness ==
    /\ FilteredByStatus
    /\ answer.status = "fail"
    /\ Len(answer.pre) = 3
    /\ Len(answer.out) = 2
    /\ SummaryOfPre["fail"] = 2

-----------------------------------------------------------------------------
\* The sum of the values of a mapping over the keys in S.
RECURSIVE SumOver(_, _)
SumOver(f, S) ==
    IF S = {} THEN 0
    ELSE LET k == CHOOSE x \in S : TRUE IN f[k] + SumOver(f, S \ {k})

\* C14: get_summary_by_status(results) returns a mapping whose keys are
\* exactly the check_status values of the records, each with the number
\* of records that have it; the counts add up to the number of records,
\* and an empty list gives an empty mapping.
C14_SummaryCountsEveryStatus ==
    answer.op = "get_summary_by_status" =>
        LET given == answer.pre
            summary == answer.summary
        IN /\ DOMAIN summary =
                {given[i]["check_status"] : i \in 1..Len(given)}
           /\ \A s \in DOMAIN summary :
                 summary[s] =
                   Cardinality({i \in 1..Len(given) :
                                   given[i]["check_status"] = s})
           /\ SumOver(summary, DOMAIN summary) = Len(given)
           /\ given = <<>> => DOMAIN summary = {}
           /\ result_list = given

\* A summary of three records with two statuses, one of them a string
\* outside pass, fail, warning and log.
C14_Witness ==
    /\ answer.op = "get_summary_by_status"
    /\ Len(answer.pre) = 3
    /\ DOMAIN answer.summary = {"pass", ""}
    /\ answer.summary["pass"] = 2

-----------------------------------------------------------------------------
\* A criterion is supplied when it is a string that is not empty.
Supplied(v) == v \notin {PyNone, ""}

-----------------------------------------------------------------------------
\* A mapping from module names to rules is well-formed: every module name
\* begins with the module prefix and is not the template, every module
\* has a rule, and every rule name begins with the rule prefix.
WellFormed(names, rulesOf(_)) ==
    \A i \in 1..Len(names) :
        /\ StartsWith(names[i], CheckerPrefix)
        /\ names[i] # TemplateName
        /\ Len(rulesOf(i)) >= 1
        /\ \A j \in 1..Len(rulesOf(i)) : StartsWith(rulesOf(i)[j], CheckPrefix)

\* C16: after any sequence of discover() calls, the registry and the
\* mapping that discover() returned are well-formed.
C16_RegistryIsWellFormed ==
    /\ LET rulesOf(i) == Keys(checkers[i].val)
       IN WellFormed(Keys(checkers), rulesOf)
    /\ LET rulesOf(i) == last.ret[i].val
       IN WellFormed(Keys(last.ret), rulesOf)

\* A second discover(), on a directory that holds the template and a rule
\* module, has returned a mapping of two modules.
C16_Witness ==
    /\ last.op = "discover"
    /\ ~last.raised
    /\ Len(history) >= 2
    /\ TemplateName \in last.dir.names
    /\ Len(last.ret) = 2
    /\ Len(checkers) = 2

-----------------------------------------------------------------------------
\* C17: run() calls every rule it invokes with the model handle and the
\* keyword arguments that run() itself was given, unchanged from one rule
\* to the next.
C17_SameArgumentsToEveryRule ==
    last.op = "run" =>
        \A k \in 1..Len(last.invoked) :
            /\ last.invoked[k].kwargs = last.kwargs
            /\ last.invoked[k].model = last.model

\* A run() with a keyword argument that invoked three rules or more, of
\* two modules, one of which raised.
C17_Witness ==
    /\ RanPastGuards
    /\ last.kwargs # {}
    /\ Len(last.invoked) >= 3
    /\ \E k \in 1..(Len(last.invoked) - 1) : last.invoked[k].raised
    /\ last.invoked[1].file # last.invoked[Len(last.invoked)].file

-----------------------------------------------------------------------------
\* C18: a run of run_checks.py that met a top-level failure (the model
\* file is missing or cannot be opened, discovery failed, or run() raised)
\* exits with a status other than 0.
C18_FailureExitsNonZero ==
    (process.state = "exited" /\ process.stderr # "none") =>
        process.exit_status # 0

-----------------------------------------------------------------------------
\* The entity type that a shipped rule checks.
TypeChecked(rule) ==
    CASE rule = "check_door_accessibility" -> "IfcDoor"
      [] rule = "check_room_heights" -> "IfcSpace"
      [] rule = "check_stair_dimensions" -> "IfcStair"
      [] rule = "check_wall_fire_rating" -> "IfcWall"
      [] rule = "check_window_thermal" -> "IfcWindow"

\* C19: each of the five shipped rules, called on a model with no entity
\* of the type it checks, returns exactly one record, with element_type
\* "Summary", check_status "warning" and actual_value "0".
C19_NoEntityGivesOneWarning ==
    (rule_call.rule # "none" /\ ifc[TypeChecked(rule_call.rule)] = <<>>) =>
        /\ Len(rule_call.results) = 1
        /\ rule_call.results[1]["element_type"] = "Summary"
        /\ rule_call.results[1]["check_status"] = "warning"
        /\ rule_call.results[1]["actual_value"] = F("0", <<>>)

\* The wall rule was called on a model that holds doors and no wall.
C19_Witness ==
    /\ rule_call.rule = "check_wall_fire_rating"
    /\ ifc["IfcWall"] = <<>>
    /\ ifc["IfcDoor"] # <<>>
    /\ Len(rule_call.results) = 1

\* The width measured for a door: its overall width when it has one, else
\* the value of a property of it whose name holds "Width".
Measured(door) ==
    IF door.OverallWidth # NoValue THEN {door.OverallWidth[1]}
    ELSE {p.NominalValue[1] :
            p \in {q \in Range(Properties(door.IsDefinedBy)) :
                      Contains(q.Name, P_Width) /\ q.NominalValue # NoValue}}

\* The last call was the door rule on a model with doors.
DoorsChecked ==
    rule_call.rule = "check_door_accessibility" /\ ifc["IfcDoor"] # <<>>

\* C20: in the door rule, every door whose measured width is below the
\* minimum gives a record with check_status "fail" and a comment that
\* states the shortfall, and the final Summary record is "fail" when some
\* door failed and "pass" when none did.
C20_NarrowDoorFails ==
    DoorsChecked =>
        LET doors == ifc["IfcDoor"]
            results == rule_call.results
            min_width == Param(rule_call.kwargs, "min_width", DefaultMinWidth)
        IN /\ Len(results) = Len(doors) + 1
           /\ \A i \in 1..Len(doors) :
                 (\E w \in Measured(doors[i]) : w < min_width) =>
                     /\ results[i]["element_id"] = doors[i].GlobalId
                     /\ results[i]["check_status"] = "fail"
                     /\ results[i]["comment"].args[1] < results[i]["comment"].args[2]
           /\ results[Len(results)]["element_type"] = "Summary"
           /\ results[Len(results)]["check_status"] =
                 IF \E i \in 1..Len(doors) : results[i]["check_status"] = "fail"
                 THEN "fail" ELSE "pass"

-----------------------------------------------------------------------------
\* The record has a provenance key.
Tagged(id) == ProvenanceKeys \cap DOMAIN heap[id] # {}

\* C21: in run(), no record is tagged before every record of its rule's
\* returned list has been validated: after a run, no record of a list that
\* failed validation has _checker_file or _checker_function.
C21_NoTagBeforeWholeListValidated ==
    RanPastGuards =>
        \A k \in 1..Len(last.invoked) :
            FailsValidation(last.invoked[k]) =>
                \A i \in 1..Len(last.invoked[k].items) :
                    last.invoked[k].items[i].isdict =>
                        ~Tagged(last.invoked[k].items[i].ref)

-----------------------------------------------------------------------------
\* The elements of a returned list that run() admits: those before the
\* first one that is not a dictionary or lacks a required key.
RECURSIVE Admitted(_)
Admitted(items) ==
    IF items = <<>> THEN <<>>
    ELSE IF ~Head(items).isdict THEN <<>>
    ELSE IF MissingKeys(heap[Head(items).ref]) # {} THEN <<>>
    ELSE <<Head(items).ref>> \o Admitted(Tail(items))

\* For each record that the invocations put into the results, in order:
\* the record, and the module and rule whose invocation returned it.
RECURSIVE Emitted(_)
Emitted(inv) ==
    IF inv = <<>> THEN <<>>
    ELSE (IF Head(inv).raised \/ ~Head(inv).islist THEN <<>>
          ELSE [i \in 1..Len(Admitted(Head(inv).items)) |->
                   [id |-> Admitted(Head(inv).items)[i],
                    file |-> Head(inv).file, func |-> Head(inv).func]])
         \o Emitted(Tail(inv))

\* C22: in the report of a run, the records are those that the invocations
\* emitted, in order, and _checker_file and _checker_function of each name
\* the module and the rule whose invocation emitted it, also when a rule
\* gave its own values for those keys or when two invocations returned the
\* same dictionary.
C22_ProvenanceNamesTheEmitter ==
    Reported =>
        /\ Len(LastReport.results) = Len(Emitted(last.invoked))
        /\ \A p \in 1..Len(LastReport.results) :
              /\ LastReport.results[p] = Emitted(last.invoked)[p].id
              /\ TaggedBy(LastReport.results[p],
                          Emitted(last.invoked)[p].file,
                          Emitted(last.invoked)[p].func)

-----------------------------------------------------------------------------
\* A per-rule detail is a success with a count or a failure with an error.
WellFormedDetail(d) ==
    \/ /\ d.status = "success"
       /\ DOMAIN d = {"checker", "status", "result_count"}
    \/ /\ d.status = "failed"
       /\ DOMAIN d = {"checker", "status", "error"}

\* The number of details of a report with a status.
DetailsWith(report, status) ==
    Cardinality({k \in 1..Len(report.summary.checker_details) :
                    report.summary.checker_details[k].status = status})

\* C23: in every report, total_checkers = successful_checkers +
\* failed_checkers, checker_details has one entry per rule considered, each
\* a success with a result_count or a failure with an error, as many of each
\* as the two counters say; and the entries of the report of a run are those
\* of the rules it invoked, in the order of invocation.
C23_SummaryCountsAddUp ==
    /\ \A r \in 1..Len(reports) :
          /\ reports[r].summary.total_checkers =
               reports[r].summary.successful_checkers
               + reports[r].summary.failed_checkers
          /\ Len(reports[r].summary.checker_details) =
               reports[r].summary.total_checkers
          /\ \A k \in 1..Len(reports[r].summary.checker_details) :
                WellFormedDetail(reports[r].summary.checker_details[k])
          /\ DetailsWith(reports[r], "success") =
               reports[r].summary.successful_checkers
          /\ DetailsWith(reports[r], "failed") =
               reports[r].summary.failed_checkers
    /\ Reported =>
          /\ Len(LastReport.summary.checker_details) = Len(last.invoked)
          /\ \A k \in 1..Len(last.invoked) :
                LastReport.summary.checker_details[k].checker =
                  <<last.invoked[k].file, last.invoked[k].func>>

\* A report of a run in which rules succeeded and rules failed, the second
\* report of its engine.
C23_Witness ==
    /\ Reported
    /\ Len(reports) = 2
    /\ LastReport.summary.successful_checkers >= 1
    /\ LastReport.summary.failed_checkers >= 1
    /\ LastReport.summary.checker_details[1].status = "failed"
    /\ LastReport.summary.total_checkers = 3

-----------------------------------------------------------------------------
\* The trace lines that the run of the last report appended: those after
\* its "start" line.
RunTrace ==
    LET log == execution_log
        s == CHOOSE i \in 1..Len(log) :
                 /\ log[i].kind = "start"
                 /\ \A j \in (i + 1)..Len(log) : log[j].kind # "start"
    IN SubSeq(log, s + 1, Len(log))

\* Where the trace announces the k-th invocation.
RunningAt(trace, k) ==
    CHOOSE i \in 1..Len(trace) :
        /\ trace[i].kind = "running"
        /\ Cardinality({j \in 1..i : trace[j].kind = "running"}) = k

\* Invocation v returned an empty list.
ReturnedEmpty(v) == ~v.raised /\ v.islist /\ v.items = <<>>

\* C24: a rule that returns an empty list is recorded as a success with
\* result_count 0, puts no record into the results, and the trace line
\* after its announcement is the warning, not an error line; the failed
\* counter counts the other rules only.
C24_EmptyListIsSuccess ==
    Reported =>
        /\ Len(LastReport.results) = Len(Emitted(last.invoked))
        /\ LastReport.summary.failed_checkers =
             Cardinality({k \in 1..Len(last.invoked) :
                             /\ ~ReturnedEmpty(last.invoked[k])
                             /\ LastReport.summary.checker_details[k].status
                                  = "failed"})
        /\ \A k \in 1..Len(last.invoked) :
              ReturnedEmpty(last.invoked[k]) =>
                /\ LastReport.summary.checker_details[k] =
                     [checker |-> <<last.invoked[k].file, last.invoked[k].func>>,
                      status |-> "success", result_count |-> 0]
                /\ RunTrace[RunningAt(RunTrace, k)].func = last.invoked[k].func
                /\ RunTrace[RunningAt(RunTrace, k) + 1].kind = "no_results"

\* A run in which a rule returned an empty list and another rule failed.
C24_Witness ==
    /\ Reported
    /\ \E k \in 1..Len(last.invoked) : ReturnedEmpty(last.invoked[k])
    /\ LastReport.summary.failed_checkers >= 1
    /\ LastReport.summary.successful_checkers >= 1

-----------------------------------------------------------------------------
\* The trace lines that the last discover() appended: the last "scanning"
\* line and those after it.
DiscoverTrace ==
    LET s == CHOOSE i \in 1..Len(execution_log) :
                 /\ execution_log[i].kind = "scanning"
                 /\ \A j \in (i + 1)..Len(execution_log) :
                       execution_log[j].kind # "scanning"
    IN SubSeq(execution_log, s, Len(execution_log))

\* The entry of a registry for a module: none, or one.
Entry(chk, file) == {chk[i] : i \in {j \in 1..Len(chk) : chk[j].key = file}}

\* The i-th file of the last discover() is reached: every file before it
\* loads.
ReachedFile(files, i) == \A j \in 1..(i - 1) : last.dir.text[files[j]].loads

\* The file loads and binds no callable whose name starts with check_.
Ruleless(file) ==
    last.dir.text[file].loads /\ RuleNames(last.dir.text[file]) = {}

\* C25: in discover(), a module that loads and has no check_ callable gets
\* a warning line in the trace and no error line, the call adds no registry
\* entry for it (the registry has for it what it had before the call), and
\* discovery goes on: the modules after it are loaded, those with rules are
\* registered with their rules, and discover() raises only when a module
\* fails to load.
C25_RulelessModuleIsSkipped ==
    (last.op = "discover" /\ last.dir.exists) =>
        LET files == CheckerFiles(last.dir)
        IN /\ last.raised <=>
                 \E i \in 1..Len(files) : ~last.dir.text[files[i]].loads
           /\ \A i \in 1..Len(files) :
                 (Ruleless(files[i]) /\ ReachedFile(files, i)) =>
                   /\ \E n \in 1..Len(DiscoverTrace) :
                         /\ DiscoverTrace[n].kind = "no_functions"
                         /\ DiscoverTrace[n].file = files[i]
                   /\ \A n \in 1..Len(DiscoverTrace) :
                         DiscoverTrace[n].kind = "load_error" =>
                           DiscoverTrace[n].file # files[i]
                   /\ HasKey(loaded_modules, files[i])
                   /\ Entry(checkers, files[i]) = Entry(last.pre, files[i])
                   /\ \A j \in (i + 1)..Len(files) :
                         (ReachedFile(files, j) /\ last.dir.text[files[j]].loads) =>
                           /\ HasKey(loaded_modules, files[j])
                           /\ RuleNames(last.dir.text[files[j]]) # {} =>
                                \E e \in Entry(checkers, files[j]) :
                                    Range(Keys(e.val)) =
                                      RuleNames(last.dir.text[files[j]])

\* A discover() that returned: its first module has no rule, its second
\* one is registered and in the returned mapping.
C25_Witness ==
    /\ last.op = "discover"
    /\ ~last.raised
    /\ Len(CheckerFiles(last.dir)) = 2
    /\ Ruleless(CheckerFiles(last.dir)[1])
    /\ Keys(checkers) = <<CheckerFiles(last.dir)[2]>>
    /\ Keys(last.ret) = <<CheckerFiles(last.dir)[2]>>
    /\ Len(loaded_modules) = 2

-----------------------------------------------------------------------------
\* The records of a report, as the dictionaries are in the heap h.
RecordsOf(report, h) == [i \in 1..Len(report.results) |-> h[report.results[i]]]

\* A step that is a run() with the registry, the model, the filter and the
\* keyword arguments of the run() before it, which returned a report.
SameRunAgain ==
    /\ last.op = "run"
    /\ ~last.raised
    /\ last'.op = "run"
    /\ last'.pre = last.pre
    /\ last'.model = last.model
    /\ last'.checker_filter = last.checker_filter
    /\ last'.kwargs = last.kwargs

\* C26: a run() with the same registry, model, filter and keyword
\* arguments as the run() before it invokes the same rules in the same
\* order and returns a report with the same records in the same order and
\* the same summary.
C26_RunIsDeterministic ==
    [][SameRunAgain =>
         /\ ~last'.raised
         /\ Len(reports') = Len(reports) + 1
         /\ [k \in 1..Len(last'.invoked) |->
                <<last'.invoked[k].file, last'.invoked[k].func>>]
              = [k \in 1..Len(last.invoked) |->
                    <<last.invoked[k].file, last.invoked[k].func>>]
         /\ RecordsOf(reports'[Len(reports')], heap')
              = RecordsOf(reports[Len(reports)], heap)
         /\ reports'[Len(reports')].summary = reports[Len(reports)].summary]_vars

\* Two reports of one engine, one run() after the other, with the same
\* records and summary: rules succeeded, a rule failed.
C26_Witness ==
    /\ Len(reports) = 2
    /\ Len(history) = 3
    /\ history[2].op = "run"
    /\ history[3].op = "run"
    /\ reports[1].summary = reports[2].summary
    /\ RecordsOf(reports[1], heap) = RecordsOf(reports[2], heap)
    /\ reports[2].results # reports[1].results
    /\ reports[2].summary.failed_checkers >= 1
    /\ reports[2].summary.total_results >= 2

-----------------------------------------------------------------------------
\* C27: a report that run() has returned is not changed by any later
\* discover() or run() on the same engine: its results list, its summary
\* and its log stay as they were, and so does each of its records.
C27_ReportsAreNeverMutated ==
    [][\A r \in 1..Len(reports) :
          /\ Len(reports') >= r
          /\ reports'[r] = reports[r]
          /\ RecordsOf(reports'[r], heap') = RecordsOf(reports[r], heap)]_vars

-----------------------------------------------------------------------------
\* The sum of result_count over the details whose status is "success".
RECURSIVE CountedResults(_)
CountedResults(details) ==
    IF details = <<>> THEN 0
    ELSE (IF Head(details).status = "success" THEN Head(details).result_count
          ELSE 0)
         + CountedResults(Tail(details))

\* C28: in every report, summary.total_results is the number of records in
\* results, and that number is the sum of result_count over the details
\* with status "success": a rule recorded as failed has no record in it.
C28_TotalResultsIsSumOfCounts ==
    \A r \in 1..Len(reports) :
        /\ reports[r].summary.total_results = Len(reports[r].results)
        /\ Len(reports[r].results) =
             CountedResults(reports[r].summary.checker_details)

-----------------------------------------------------------------------------
\* The sequence q begins with the sequence p.
BeginsWith(q, p) == Len(p) <= Len(q) /\ SubSeq(q, 1, Len(p)) = p

\* C29: the trace log is only appended to, by discover() and by run(): the
\* log of every report begins with the discovery trace and with the whole
\* log of the report before it, every report's log stays the beginning of
\* the engine's trace, the log of a new report is the whole trace, and a
\* run() that raises for a precondition appends nothing.
C29_TraceLogIsAppendOnly ==
    /\ [](\A r \in 1..Len(reports) :
             /\ BeginsWith(Join(execution_log), reports[r].log)
             /\ reports[r].log[1].kind = "scanning"
             /\ r > 1 => /\ BeginsWith(reports[r].log, reports[r - 1].log)
                         /\ Len(reports[r].log) > Len(reports[r - 1].log))
    /\ [][/\ BeginsWith(execution_log', execution_log)
          /\ (last'.op = "run" /\ last'.raised) =>
                execution_log' = execution_log
          /\ (last'.op = "run" /\ ~last'.raised) =>
                /\ Len(execution_log') > Len(execution_log)
                /\ reports'[Len(reports')].log = Join(execution_log')]_vars

\* A second report of an engine, one run() right after the other:
\* its log begins with the log of the first and is longer.
C29_Witness ==
    /\ Len(reports) = 2
    /\ Len(history) = 3
    /\ history[1].op = "discover"
    /\ history[2].op = "run"
    /\ history[3].op = "run"
    /\ BeginsWith(reports[2].log, reports[1].log)
    /\ Len(reports[2].log) > Len(reports[1].log) + 1
    /\ reports[2].log[Len(reports[1].log) + 1].kind = "newline"

-----------------------------------------------------------------------------
\* C30: when every discover() made before a run() has raised, the engine
\* is still NotDiscovered: the run(), given a valid model, raises and
\* invokes no rule.
C30_RunAfterFailedDiscoverRaises ==
    (/\ last.op = "run"
     /\ last.model = "ifc"
     /\ \A i \in 1..(Len(history) - 1) :
           history[i].op = "discover" => history[i].raised) =>
        /\ last.raised
        /\ last.err.kind = "no_checkers"
        /\ last.invoked = <<>>

====
